---- MODULE Spec2Model ----
(***************************************************************************)
(* tiktocker: the per-device backup pipeline of cmd/tiktocker/main.go and  *)
(* internal/backup/mikrotik.go as a state machine.  Every goroutine is a   *)
(* process; an unbuffered Go channel is the queue of the senders parked on *)
(* it; WaitForResult is a select over that queue and the device context.   *)
(***************************************************************************)
EXTENDS Integers, Sequences, FiniteSets, TLC

VARIABLES
    useS3,              \* s3Connector != nil (object-storage mode)
    expired,            \* [d -> BOOLEAN]: the device's ctx is done
    opc,                \* [d -> position of the device goroutine of main]
    osel,               \* [d -> state of the device goroutine's select]
    configFileResult,   \* [d -> RequestResult], main's local variable
    backupFileResult,   \* [d -> RequestResult], main's local variable
    mainBackupChannel,  \* [d -> Seq(RequestResult)]: senders parked on it
    gs,                 \* [d -> [goroutine -> position]]
    internalChannel,    \* [d -> [pipeline -> Seq(RequestResult)]]
    calls,              \* [d -> [operation -> number of invocations]]
    served,             \* [d -> set of operations the device completed]
    store,              \* [d -> [artifact -> stored object]]
    proc,               \* "running", "exited" (main returned), "panicked"
    panicBy,            \* the goroutine whose send panicked, <<d, g>>
    fnIn,               \* input of the pure function under check
    fnOut               \* its output

vars == <<useS3, expired, opc, osel, configFileResult, backupFileResult,
          mainBackupChannel, gs, internalChannel, calls, served, store,
          proc, panicBy, fnIn, fnOut>>

pipelineVars == <<useS3, expired, opc, osel, configFileResult, backupFileResult,
                  mainBackupChannel, gs, internalChannel, calls, served,
                  store, proc, panicBy>>

-----------------------------------------------------------------------------
(* Bytes, contents and checksums *)

\* '\n', the first-line terminator searched by downloadFile
NL == 10

\* marks a digest: a base64 SHA-256 is never the empty string
ShaTag == 256

\* the empty string
EmptyString == <<>>

\* sha256 + base64: injective on contents (no collisions), never empty
ComputeSha256(contents) == <<ShaTag>> \o contents

\* bytes.IndexByte(contents, '\n'): first index (0-based) or -1
IndexByte(contents, b) ==
    IF \E i \in 1..Len(contents) : contents[i] = b
    THEN (CHOOSE i \in 1..Len(contents) :
              /\ contents[i] = b
              /\ \A j \in 1..(i - 1) : contents[j] # b) - 1
    ELSE -1

\* contents[firstNl+1:]
SliceFrom(contents, k) == SubSeq(contents, k + 1, Len(contents))

\* a mutant: the first line is part of what is summed
Sha256WithoutFirstLineOf_Mut(contents) ==
    IF IndexByte(contents, NL) >= 0 THEN ComputeSha256(contents) ELSE EmptyString

\* the checksum that skips the first line; "" when there is no newline
Sha256WithoutFirstLineOf(contents) ==
    LET firstNl == IndexByte(contents, NL)
    IN  IF firstNl >= 0
        THEN ComputeSha256(SliceFrom(contents, firstNl + 1))
        ELSE EmptyString

-----------------------------------------------------------------------------
(* Values passed between goroutines *)

\* the metadata key of the change-detection checksum
Sha256WithoutFirstLine == "tiktockersha256"

NoErr == "nil"
HttpErr == "http"       \* doRequest failed, or the reply could not be decoded
ScpErr == "scp"         \* the SSH connection or the copy failed
S3Err == "s3"           \* the upload to the bucket failed
MkdirErr == "mkdir"     \* the destination directory could not be created
WriteErr == "write"     \* the file could not be written
CtxErr == "context done"

EmptyFile ==
    [Name |-> <<>>, Contents |-> <<>>, ComputedSha256 |-> EmptyString,
     ComputedSha256WithoutFirstLine |-> EmptyString]

\* *string: nil, or a pointer to val
NilPtr == [isNil |-> TRUE, val |-> EmptyString]
PtrTo(v) == [isNil |-> FALSE, val |-> v]

\* common.RequestResult, tagged with the goroutine that built it
Result(from, err, identity, file, existing) ==
    [from |-> from, Err |-> err, MikrotikIdentity |-> identity, File |-> file,
     ExistingConfigSha256 |-> existing]

NoResult == Result("-", NoErr, "", EmptyFile, NilPtr)

\* what downloadFile puts in the result for the bytes it copied
DownloadedFile(fileName, contents) ==
    [Name |-> fileName, Contents |-> contents,
     ComputedSha256 |-> ComputeSha256(contents),
     ComputedSha256WithoutFirstLine |-> Sha256WithoutFirstLineOf(contents)]

\* a mutant: compares against the checksum of the whole file
ShouldPerformNewBackup_Mut(r) ==
    r.ExistingConfigSha256.isNil
        \/ r.ExistingConfigSha256.val # r.File.ComputedSha256

\* RequestResult.ShouldPerformNewBackup
\* a mutant: without a stored checksum there is nothing to back up
ShouldPerformNewBackup_Nil(r) ==
    ~r.ExistingConfigSha256.isNil
        /\ r.ExistingConfigSha256.val # r.File.ComputedSha256WithoutFirstLine

ShouldPerformNewBackup(r) ==
    r.ExistingConfigSha256.isNil
        \/ r.ExistingConfigSha256.val # r.File.ComputedSha256WithoutFirstLine

-----------------------------------------------------------------------------
(* Targets, goroutines and artifacts *)

\* the configured targets; each device reports its own, distinct identity
Devices == {"d1", "d2"}

\* the goroutines started inside a pipeline, and the pipeline of each
Leaves == {"getIdentity", "exportConfig", "downloadConfig",
           "performBackup", "downloadBackup"}
Pipelines == {"MikrotikConfigExport", "MikrotikBackup"}
PipelineOf(g) ==
    IF g \in {"getIdentity", "exportConfig", "downloadConfig"}
    THEN "MikrotikConfigExport" ELSE "MikrotikBackup"

\* the goroutines the device goroutine of main starts: one per stage
MainStages == {"MikrotikConfigExport", "lookup", "MikrotikBackup",
               "uploadConfig", "uploadBackup"}
Goroutines == Leaves \cup MainStages

\* the requests a device serves over HTTP and over SCP
HttpOps == {"getIdentity", "exportConfig", "performBackup"}
DeviceOps == Leaves

Terminal == {"Skipped", "Stored", "Failed"}
Waits == MainStages

Artifacts == {"config", "backup"}

\* fmt.Sprintf("%s.config.rsc", identity) and fmt.Sprintf("%s.backup", identity)
ExportFileName(identity) == <<identity, ".config.rsc">>
BackupFileName(identity) == <<identity, ".backup">>

\* settings.Metadata of a target, e.g. automated: "true"
TargetMetadata == [automated |-> <<116>>]

\* the targets whose calls may fail and whose deadline may pass during the
\* run; the other targets answer every call, in time
Unreliable == {"d1"}

\* whether a call to (or for) the device goes through
Answers(d) == IF d \in Unreliable THEN BOOLEAN ELSE {TRUE}

\* what the device may hand out as its export: two bodies under the same
\* first line
ExportContents(d) ==
    IF d \in Unreliable THEN {<<65, NL, 66>>, <<65, NL, 67>>} ELSE {<<65, NL, 67>>}

\* what the device hands out as its backup image
BackupContents == {<<68, NL, 69>>}

-----------------------------------------------------------------------------
(* The artifact store *)

AbsentObject ==
    [exists |-> FALSE, Contents |-> <<>>, ChecksumSHA256 |-> EmptyString,
     Metadata |-> <<>>]

\* m with key k set to v
MapPut(m, k, v) ==
    [x \in DOMAIN m \cup {k} |-> IF x = k THEN v ELSE m[x]]

\* a mutant: stores the caller's metadata only, without the checksum entry
PutObjectInput_Mut(file, metadata) ==
    [exists |-> TRUE, Contents |-> file.Contents,
     ChecksumSHA256 |-> file.ComputedSha256, Metadata |-> metadata]

\* a mutant: the checksum entry replaces the caller's metadata
PutObjectInput_Drop(file, metadata) ==
    [exists |-> TRUE, Contents |-> file.Contents,
     ChecksumSHA256 |-> file.ComputedSha256,
     Metadata |-> IF file.ComputedSha256WithoutFirstLine # EmptyString
                  THEN MapPut(<<>>, Sha256WithoutFirstLine,
                              file.ComputedSha256WithoutFirstLine)
                  ELSE metadata]

\* the object S3Connector.UploadFile asks the store to keep
PutObjectInput(file, metadata) ==
    LET m == IF file.ComputedSha256WithoutFirstLine # EmptyString
             THEN MapPut(metadata, Sha256WithoutFirstLine,
                         file.ComputedSha256WithoutFirstLine)
             ELSE metadata
    IN  [exists |-> TRUE, Contents |-> file.Contents,
         ChecksumSHA256 |-> file.ComputedSha256, Metadata |-> m]

\* HeadObject: fails when ctx is done, when the call fails, when there is
\* no object; head.Metadata is nil when the object carries no metadata
HeadObject(obj, ctxDone, callOk) ==
    IF ctxDone \/ ~callOk \/ ~obj.exists
    THEN [err |-> TRUE, ChecksumSHA256 |-> EmptyString, hasMetadata |-> FALSE,
          Metadata |-> <<>>]
    ELSE [err |-> FALSE, ChecksumSHA256 |-> obj.ChecksumSHA256,
          hasMetadata |-> DOMAIN obj.Metadata # {}, Metadata |-> obj.Metadata]

\* the zero value of a missing map key
MapGet(m, k) == IF k \in DOMAIN m THEN m[k] ELSE EmptyString

\* a mutant: a failed lookup yields a pointer to "" instead of nil
GetObjectSha256_Mut(head) ==
    PtrTo(IF head.err THEN EmptyString
          ELSE MapGet(head.Metadata, Sha256WithoutFirstLine))

\* S3Connector.GetObjectSha256
GetObjectSha256(head) ==
    IF ~head.err /\ head.hasMetadata
    THEN PtrTo(MapGet(head.Metadata, Sha256WithoutFirstLine))
    ELSE NilPtr

\* the config object an earlier run left in the bucket: none, one stored by
\* this program for an export with another first line, one without the
\* checksum entry
InitialConfigObjects(d) ==
    {AbsentObject,
     PutObjectInput(DownloadedFile(ExportFileName(d), <<64, NL, 66>>),
                    TargetMetadata),
     [exists |-> TRUE, Contents |-> <<64, NL, 66>>,
      ChecksumSHA256 |-> ComputeSha256(<<64, NL, 66>>),
      Metadata |-> TargetMetadata]}

-----------------------------------------------------------------------------
(* Initial state: main has started one goroutine per target *)

NoFnValue == [name |-> "-"]

InitPipeline ==
    /\ useS3 \in BOOLEAN
    /\ expired = [d \in Devices |-> FALSE]
    /\ opc = [d \in Devices |-> "start"]
    /\ osel = [d \in Devices |-> "pre"]
    /\ configFileResult = [d \in Devices |-> NoResult]
    /\ backupFileResult = [d \in Devices |-> NoResult]
    /\ mainBackupChannel = [d \in Devices |-> <<>>]
    /\ gs = [d \in Devices |-> [g \in Goroutines |-> "idle"]]
    /\ internalChannel = [d \in Devices |-> [p \in Pipelines |-> <<>>]]
    /\ calls = [d \in Devices |-> [o \in DeviceOps |-> 0]]
    /\ served = [d \in Devices |-> {}]
    /\ store \in [Devices -> [Artifacts -> {AbsentObject}
                                 \cup UNION {InitialConfigObjects(d) : d \in Devices}]]
    /\ \A d \in Devices :
          /\ store[d]["backup"] = AbsentObject
          /\ store[d]["config"] \in
                (IF useS3 /\ d \in Unreliable
                 THEN InitialConfigObjects(d) ELSE {AbsentObject})
    /\ proc = "running"
    /\ panicBy = <<>>

Init ==
    /\ InitPipeline
    /\ fnIn = NoFnValue
    /\ fnOut = NoFnValue

-----------------------------------------------------------------------------
(* WaitForResult and channels *)

\* the result WaitForResult builds on <-ctx.Done()
ContextDone == Result("WaitForResult", CtxErr, "", EmptyFile, NilPtr)

\* the channel is closed once the goroutine that made it has returned
MainClosed(d) == opc[d] \in Terminal
InternalClosed(d, p) == gs[d][p] = "done"

\* a receiver parked in select is handed the first value sent, unless the
\* context woke it first
Handoff(sel, ctxDone) ==
    IF sel = "parked" /\ ~ctxDone THEN "gotval" ELSE sel

\* the goroutines a go statement of main brings to life: a pipeline starts
\* its first leaf before it waits
Started(g) ==
    CASE g = "MikrotikConfigExport" ->
            [x \in {"MikrotikConfigExport", "getIdentity"} |->
                IF x = "getIdentity" THEN "run" ELSE "w1"]
      [] g = "MikrotikBackup" ->
            [x \in {"MikrotikBackup", "performBackup"} |->
                IF x = "performBackup" THEN "run" ELSE "w1"]
      [] OTHER -> [x \in {g} |-> "run"]

\* gsd with the goroutines of f set to their positions in f
Override(gsd, f) ==
    [g \in DOMAIN gsd |-> IF g \in DOMAIN f THEN f[g] ELSE gsd[g]]

-----------------------------------------------------------------------------
(* The device goroutine of main *)

\* if configFileResult.Err != nil
ConfigExportFailed(r) == r.Err # NoErr

\* a mutant: the result of the backup pipeline is used without its Err
BackupFailed_Mut(r) == FALSE

\* if backupFileResult.Err != nil
BackupFailed(r) == r.Err # NoErr

\* a mutant: the result of an upload is used without its Err
UploadFailed_Mut(r) == FALSE

\* if configFileUploadResult.Err != nil, if backupUploadResult.Err != nil,
\* if storeResult.Err != nil
UploadFailed(r) == r.Err # NoErr

MainNext(pc, cfg, bak, go) == [opc |-> pc, cfg |-> cfg, bak |-> bak, go |-> go]

\* a mutant: the backup is performed whatever the change decision says
Decide_Mut(cfg, bak) == MainNext("MikrotikBackup", cfg, bak, "MikrotikBackup")

\* if configFileResult.ShouldPerformNewBackup() { go MikrotikBackup ... }
\* else { return }
Decide(cfg, bak) ==
    IF ShouldPerformNewBackup(cfg)
    THEN MainNext("MikrotikBackup", cfg, bak, "MikrotikBackup")
    ELSE MainNext("Skipped", cfg, bak, "-")

\* a mutant: a failed export pipeline is started again; anything else ends
\* the device
MainStep_Mut(stage, r, cfg, bak, s3) ==
    IF stage = "MikrotikConfigExport" /\ r.Err # NoErr
    THEN MainNext("MikrotikConfigExport", cfg, bak, "MikrotikConfigExport")
    ELSE MainNext("Failed", cfg, bak, "-")

\* what the device goroutine does with the result r of the wait for `stage`,
\* up to its next WaitForResult or its return
MainStep(stage, r, cfg, bak, s3) ==
    CASE stage = "MikrotikConfigExport" ->
            IF ConfigExportFailed(r) THEN MainNext("Failed", cfg, bak, "-")
            ELSE IF s3 THEN MainNext("lookup", r, bak, "lookup")
            ELSE Decide(r, bak)
      [] stage = "lookup" ->
            \* the Err of s3MetadataResult is not looked at
            Decide([cfg EXCEPT !.ExistingConfigSha256 = r.ExistingConfigSha256],
                   bak)
      [] stage = "MikrotikBackup" ->
            IF BackupFailed(r) THEN MainNext("Failed", cfg, bak, "-")
            ELSE MainNext("uploadConfig", cfg, r, "uploadConfig")
      [] stage = "uploadConfig" ->
            IF UploadFailed(r) THEN MainNext("Failed", cfg, bak, "-")
            ELSE MainNext("uploadBackup", cfg, bak, "uploadBackup")
      [] stage = "uploadBackup" ->
            IF UploadFailed(r) THEN MainNext("Failed", cfg, bak, "-")
            ELSE MainNext("Stored", cfg, bak, "-")

\* the device goroutine takes r as the result of its current wait; `senders`
\* are the goroutines whose send this completes, q what is left on the channel
MainTake(d, r, q, senders) ==
    LET n == MainStep(opc[d], r, configFileResult[d], backupFileResult[d], useS3)
        finished == [g \in senders |-> "done"]
        begun == IF n.go = "-" THEN finished ELSE Started(n.go) @@ finished
    IN  /\ opc' = [opc EXCEPT ![d] = n.opc]
        /\ osel' = [osel EXCEPT ![d] = "pre"]
        /\ configFileResult' = [configFileResult EXCEPT ![d] = n.cfg]
        /\ backupFileResult' = [backupFileResult EXCEPT ![d] = n.bak]
        /\ mainBackupChannel' = [mainBackupChannel EXCEPT ![d] = q]
        /\ gs' = [gs EXCEPT ![d] = Override(@, begun)]
        /\ UNCHANGED <<useS3, expired, internalChannel, calls, served, store,
                       proc, panicBy, fnIn, fnOut>>

\* go backup.MikrotikConfigExport(ctx, settings, client, mainBackupChannel)
MainStart(d) ==
    /\ proc = "running"
    /\ opc[d] = "start"
    /\ opc' = [opc EXCEPT ![d] = "MikrotikConfigExport"]
    /\ gs' = [gs EXCEPT ![d] = Override(@, Started("MikrotikConfigExport"))]
    /\ UNCHANGED <<useS3, expired, osel, configFileResult, backupFileResult,
                   mainBackupChannel, internalChannel, calls, served, store,
                   proc, panicBy, fnIn, fnOut>>

\* WaitForResult, case v, ok := <-ch
MainReceive(d) ==
    /\ proc = "running"
    /\ opc[d] \in Waits
    /\ osel[d] \in {"pre", "gotval"}
    /\ mainBackupChannel[d] # <<>>
    /\ MainTake(d, Head(mainBackupChannel[d]), Tail(mainBackupChannel[d]),
                {Head(mainBackupChannel[d]).from})

\* WaitForResult, case <-ctx.Done()
MainContextDone(d) ==
    /\ proc = "running"
    /\ opc[d] \in Waits
    /\ osel[d] \in {"pre", "parked"}
    /\ expired[d]
    /\ MainTake(d, ContextDone, mainBackupChannel[d], {})

\* WaitForResult: nothing is ready, the goroutine parks in select
MainPark(d) ==
    /\ proc = "running"
    /\ opc[d] \in Waits
    /\ osel[d] = "pre"
    /\ mainBackupChannel[d] = <<>>
    /\ ~expired[d]
    /\ osel' = [osel EXCEPT ![d] = "parked"]
    /\ UNCHANGED <<useS3, expired, opc, configFileResult, backupFileResult,
                   mainBackupChannel, gs, internalChannel, calls, served, store,
                   proc, panicBy, fnIn, fnOut>>

\* the deadline of context.WithTimeout(mainCtx, settings.Timeout) passes
Expire(d) ==
    /\ proc = "running"
    /\ d \in Unreliable
    /\ ~expired[d]
    /\ expired' = [expired EXCEPT ![d] = TRUE]
    /\ UNCHANGED <<useS3, opc, osel, configFileResult, backupFileResult,
                   mainBackupChannel, gs, internalChannel, calls, served, store,
                   proc, panicBy, fnIn, fnOut>>

\* a mutant: wg.Wait() returns as soon as one device goroutine has returned
MainExit_Mut ==
    /\ proc = "running"
    /\ \E d \in Devices : opc[d] \in Terminal
    /\ proc' = "exited"
    /\ UNCHANGED <<useS3, expired, opc, osel, configFileResult, backupFileResult,
                   mainBackupChannel, gs, internalChannel, calls, served, store,
                   panicBy, fnIn, fnOut>>

\* wg.Wait() returns once every device goroutine has returned; main returns
MainExit ==
    /\ proc = "running"
    /\ \A d \in Devices : opc[d] \in Terminal
    /\ proc' = "exited"
    /\ UNCHANGED <<useS3, expired, opc, osel, configFileResult, backupFileResult,
                   mainBackupChannel, gs, internalChannel, calls, served, store,
                   panicBy, fnIn, fnOut>>

-----------------------------------------------------------------------------
(* Sending on a channel *)

\* a mutant: the send statement is skipped, the goroutine goes on as if sent
Send_Mut(q, v) == q

\* ch <- v on an open, unbuffered channel: one more sender parked with its value
Send(q, v) == Append(q, v)

\* goroutine g sends v on mainBackupChannel: a panic when the channel is
\* closed; otherwise g parks until the device goroutine takes the value
SendMain(d, g, v) ==
    IF MainClosed(d)
    THEN /\ proc' = "panicked"
         /\ panicBy' = <<d, g>>
         /\ UNCHANGED <<mainBackupChannel, osel>>
    ELSE /\ mainBackupChannel' = [mainBackupChannel EXCEPT ![d] = Send(@, v)]
         /\ osel' = [osel EXCEPT ![d] = Handoff(@, expired[d])]
         /\ UNCHANGED <<proc, panicBy>>

\* the senders parked on a channel that has been closed under them
ParkedOnClosed(d) ==
    (IF MainClosed(d)
     THEN {mainBackupChannel[d][i].from : i \in DOMAIN mainBackupChannel[d]}
     ELSE {})
    \cup UNION {IF InternalClosed(d, p)
                THEN {internalChannel[d][p][i].from :
                          i \in DOMAIN internalChannel[d][p]}
                ELSE {} : p \in Pipelines}

\* a goroutine parked in a send panics when the channel is closed under it
PanicParked(d) ==
    /\ proc = "running"
    /\ \E g \in ParkedOnClosed(d) :
          /\ proc' = "panicked"
          /\ panicBy' = <<d, g>>
    /\ UNCHANGED <<useS3, expired, opc, osel, configFileResult, backupFileResult,
                   mainBackupChannel, gs, internalChannel, calls, served, store,
                   fnIn, fnOut>>

-----------------------------------------------------------------------------
(* MikrotikConfigExport and MikrotikBackup *)

\* a mutant: the identity response is used without its Err
IdentityFailed_Mut(r) == FALSE

\* if systemIdentityResponse.Err != nil
IdentityFailed(r) == r.Err # NoErr

\* if exportConfigResponse.Err != nil, if configDownloadResponse.Err != nil,
\* if backupResponse.Err != nil, if backupDownloadResponse.Err != nil
StageFailed(r) == r.Err # NoErr

\* &common.RequestResult{Err: fmt.Errorf("backup failure: %v", err)}
BackupFailure(p, r) == Result(p, r.Err, "", EmptyFile, NilPtr)

PipeNext(pc, go, sends, v) == [pc |-> pc, go |-> go, sends |-> sends, v |-> v]

\* what pipeline p does with the result r of its wait at pc, up to its next
\* WaitForResult or its send on deviceComms
PipeStep(p, pc, r, identity) ==
    CASE p = "MikrotikConfigExport" /\ pc = "w1" ->
            IF IdentityFailed(r)
            THEN PipeNext("blocked", "-", TRUE, BackupFailure(p, r))
            ELSE PipeNext("w2", "exportConfig", FALSE, NoResult)
      [] p = "MikrotikConfigExport" /\ pc = "w2" ->
            IF StageFailed(r)
            THEN PipeNext("blocked", "-", TRUE, BackupFailure(p, r))
            ELSE PipeNext("w3", "downloadConfig", FALSE, NoResult)
      [] p = "MikrotikConfigExport" /\ pc = "w3" ->
            IF StageFailed(r)
            THEN PipeNext("blocked", "-", TRUE, BackupFailure(p, r))
            ELSE PipeNext("blocked", "-", TRUE,
                          Result(p, NoErr, identity, r.File, NilPtr))
      [] p = "MikrotikBackup" /\ pc = "w1" ->
            IF StageFailed(r)
            THEN PipeNext("blocked", "-", TRUE, BackupFailure(p, r))
            ELSE PipeNext("w2", "downloadBackup", FALSE, NoResult)
      [] p = "MikrotikBackup" /\ pc = "w2" ->
            IF StageFailed(r)
            THEN PipeNext("blocked", "-", TRUE, BackupFailure(p, r))
            ELSE PipeNext("blocked", "-", TRUE, [r EXCEPT !.from = p])

PipeWaits == {"w1", "w2", "w3"}

\* pipeline p takes r as the result of its current wait
PipeTake(d, p, r, q, senders) ==
    LET n == PipeStep(p, gs[d][p], r, d)
        finished == [g \in senders |-> "done"]
    IN  IF n.sends
        THEN /\ SendMain(d, p, n.v)
             /\ IF MainClosed(d)
                THEN UNCHANGED <<gs, internalChannel>>
                ELSE /\ gs' = [gs EXCEPT ![d] =
                                  Override(@, [x \in {p} |-> "blocked"] @@ finished)]
                     /\ internalChannel' = [internalChannel EXCEPT ![d][p] = q]
             /\ UNCHANGED <<useS3, expired, opc, configFileResult,
                            backupFileResult, calls, served, store, fnIn, fnOut>>
        ELSE /\ gs' = [gs EXCEPT ![d] =
                          Override(@, [x \in {p, n.go} |->
                                          IF x = p THEN n.pc ELSE "run"] @@ finished)]
             /\ internalChannel' = [internalChannel EXCEPT ![d][p] = q]
             /\ UNCHANGED <<useS3, expired, opc, osel, configFileResult,
                            backupFileResult, mainBackupChannel, calls, served,
                            store, proc, panicBy, fnIn, fnOut>>

\* WaitForResult(ctx, internalChannel), case v, ok := <-ch
PipeReceive(d, p) ==
    /\ proc = "running"
    /\ gs[d][p] \in PipeWaits
    /\ internalChannel[d][p] # <<>>
    /\ PipeTake(d, p, Head(internalChannel[d][p]), Tail(internalChannel[d][p]),
                {Head(internalChannel[d][p]).from})

\* WaitForResult(ctx, internalChannel), case <-ctx.Done()
PipeContextDone(d, p) ==
    /\ proc = "running"
    /\ gs[d][p] \in PipeWaits
    /\ expired[d]
    /\ PipeTake(d, p, ContextDone, internalChannel[d][p], {})

-----------------------------------------------------------------------------
(* getIdentity, exportConfig, performBackup, downloadFile *)

\* the result a leaf goroutine sends: ok is whether the device answered 200
\* (for a download: whether the copy went through), contents the bytes copied
LeafResult(g, identity, ok, contents) ==
    CASE g = "getIdentity" ->
            IF ok THEN Result(g, NoErr, identity,
                              [EmptyFile EXCEPT !.Name = <<identity>>], NilPtr)
            ELSE Result(g, HttpErr, "", EmptyFile, NilPtr)
      [] g = "exportConfig" ->
            IF ok THEN Result(g, NoErr, identity,
                              [EmptyFile EXCEPT !.Name = ExportFileName(identity)],
                              NilPtr)
            ELSE Result(g, HttpErr, "", EmptyFile, NilPtr)
      [] g = "performBackup" ->
            IF ok THEN Result(g, NoErr, identity,
                              [EmptyFile EXCEPT !.Name = BackupFileName(identity)],
                              NilPtr)
            ELSE Result(g, HttpErr, "", EmptyFile, NilPtr)
      [] g = "downloadConfig" ->
            IF ok THEN Result(g, NoErr, "",
                              DownloadedFile(ExportFileName(identity), contents),
                              NilPtr)
            ELSE Result(g, ScpErr, "", EmptyFile, NilPtr)
      [] g = "downloadBackup" ->
            IF ok THEN Result(g, NoErr, "",
                              DownloadedFile(BackupFileName(identity), contents),
                              NilPtr)
            ELSE Result(g, ScpErr, "", EmptyFile, NilPtr)

ContentsOf(d, g) ==
    CASE g = "downloadConfig" -> ExportContents(d)
      [] g = "downloadBackup" -> BackupContents
      [] OTHER -> {<<>>}

\* a leaf goroutine calls the device and sends its one result on the
\* pipeline's internalChannel.  doRequest builds its request without the
\* context, so the HTTP calls run whether or not ctx is done; the copy of a
\* download is cancelled at best effort only
Leaf(d, g) ==
    /\ proc = "running"
    /\ gs[d][g] = "run"
    /\ \E ok \in Answers(d) : \E contents \in ContentsOf(d, g) :
         LET p == PipelineOf(g)
             v == LeafResult(g, d, ok, contents)
         IN  /\ calls' = [calls EXCEPT ![d][g] = @ + 1]
             /\ served' = [served EXCEPT ![d] = IF ok THEN @ \cup {g} ELSE @]
             /\ IF InternalClosed(d, p)
                THEN /\ proc' = "panicked"
                     /\ panicBy' = <<d, g>>
                     /\ UNCHANGED <<gs, internalChannel>>
                ELSE /\ internalChannel' =
                            [internalChannel EXCEPT ![d][p] = Send(@, v)]
                     /\ gs' = [gs EXCEPT ![d][g] = "blocked"]
                     /\ UNCHANGED <<proc, panicBy>>
    /\ UNCHANGED <<useS3, expired, opc, osel, configFileResult, backupFileResult,
                   mainBackupChannel, store, fnIn, fnOut>>

-----------------------------------------------------------------------------
(* The stored-checksum lookup and the uploads *)

\* go func() { mainBackupChannel <- &common.RequestResult{...,
\*     ExistingConfigSha256: s3Connector.GetObjectSha256(ctx, name)} }()
Lookup(d) ==
    /\ proc = "running"
    /\ gs[d]["lookup"] = "run"
    /\ \E callOk \in Answers(d) :
         LET head == HeadObject(store[d]["config"], expired[d], callOk)
             v == Result("lookup", NoErr, configFileResult[d].MikrotikIdentity,
                         EmptyFile, GetObjectSha256(head))
         IN  SendMain(d, "lookup", v)
    /\ gs' = [gs EXCEPT ![d]["lookup"] = IF MainClosed(d) THEN @ ELSE "blocked"]
    /\ UNCHANGED <<useS3, expired, opc, configFileResult, backupFileResult,
                   internalChannel, calls, served, store, fnIn, fnOut>>

ArtifactOf(g) == IF g = "uploadConfig" THEN "config" ELSE "backup"

\* a mutant: uploads without comparing with the stored object's checksum
S3Upload_Mut(obj, file, metadata, ctxDone, headOk, putOk) ==
    IF ctxDone \/ ~putOk
    THEN [Err |-> (IF ctxDone THEN CtxErr ELSE S3Err), obj |-> obj,
          put |-> FALSE]
    ELSE [Err |-> NoErr, obj |-> PutObjectInput(file, metadata), put |-> TRUE]

\* storage.UploadFile on the bucket: nothing is transferred when the stored
\* object already carries the file's checksum; otherwise S3Connector.UploadFile
\* puts the object.  Every call to the bucket fails once ctx is done.
S3Upload(obj, file, metadata, ctxDone, headOk, putOk) ==
    LET head == HeadObject(obj, ctxDone, headOk)
    IN  IF ~head.err /\ head.ChecksumSHA256 = ComputeSha256(file.Contents)
        THEN [Err |-> NoErr, obj |-> obj, put |-> FALSE]
        ELSE IF ctxDone \/ ~putOk
        THEN [Err |-> (IF ctxDone THEN CtxErr ELSE S3Err), obj |-> obj,
              put |-> FALSE]
        ELSE [Err |-> NoErr, obj |-> PutObjectInput(file, metadata), put |-> TRUE]

\* how a write to the local directory may end
StoreOutcomes(d) == IF d \in Unreliable THEN {"ok", MkdirErr, WriteErr} ELSE {"ok"}

\* a mutant: a file that is already there is kept
StoreFile_Mut(obj, file, outcome) ==
    IF outcome = "ok"
    THEN [Err |-> NoErr,
          obj |-> IF obj.exists THEN obj
                  ELSE [exists |-> TRUE, Contents |-> file.Contents,
                        ChecksumSHA256 |-> EmptyString, Metadata |-> <<>>],
          put |-> ~obj.exists]
    ELSE [Err |-> outcome, obj |-> obj, put |-> FALSE]

\* storage.StoreFile: MkdirAll, then WriteFile of the bytes, whatever is there
StoreFile(obj, file, outcome) ==
    IF outcome = "ok"
    THEN [Err |-> NoErr,
          obj |-> [exists |-> TRUE, Contents |-> file.Contents,
                   ChecksumSHA256 |-> EmptyString, Metadata |-> <<>>],
          put |-> TRUE]
    ELSE [Err |-> outcome, obj |-> obj, put |-> FALSE]

\* go storage.UploadFile(ctx, s3Connector, &file, &settings.Metadata, ch) or
\* go storage.StoreFile(localPathDownload, &file, ch)
Upload(d, g) ==
    /\ proc = "running"
    /\ gs[d][g] = "run"
    /\ \E headOk \in Answers(d), putOk \in Answers(d) :
         \E outcome \in StoreOutcomes(d) :
         LET art == ArtifactOf(g)
             file == IF g = "uploadConfig" THEN configFileResult[d].File
                     ELSE backupFileResult[d].File
             u == IF useS3
                  THEN S3Upload(store[d][art], file, TargetMetadata, expired[d],
                                headOk, putOk)
                  ELSE StoreFile(store[d][art], file, outcome)
         IN  /\ store' = [store EXCEPT ![d][art] = u.obj]
             /\ SendMain(d, g, Result(g, u.Err, "", EmptyFile, NilPtr))
    /\ gs' = [gs EXCEPT ![d][g] = IF MainClosed(d) THEN @ ELSE "blocked"]
    /\ UNCHANGED <<useS3, expired, opc, configFileResult, backupFileResult,
                   internalChannel, calls, served, fnIn, fnOut>>

-----------------------------------------------------------------------------
(* The run *)

Next ==
    \/ \E d \in Devices : MainStart(d)
    \/ \E d \in Devices : MainReceive(d)
    \/ \E d \in Devices : MainContextDone(d)
    \/ \E d \in Devices : MainPark(d)
    \/ \E d \in Devices : Expire(d)
    \/ \E d \in Devices : \E p \in Pipelines : PipeReceive(d, p)
    \/ \E d \in Devices : \E p \in Pipelines : PipeContextDone(d, p)
    \/ \E d \in Devices : \E g \in Leaves : Leaf(d, g)
    \/ \E d \in Devices : Lookup(d)
    \/ \E d \in Devices : \E g \in {"uploadConfig", "uploadBackup"} : Upload(d, g)
    \/ \E d \in Devices : PanicParked(d)
    \/ MainExit

Spec == Init /\ [][Next]_vars

-----------------------------------------------------------------------------
(* The change decision on its own: every bounded (local, remote) pair *)

\* the longest export body, and the longest body behind a stored checksum
MaxLen == 3
MaxStoredLen == 2

\* the bytes bodies are made of: a letter, the line terminator, a letter
Alphabet == {65, NL, 66}

RECURSIVE SeqsUpTo(_, _)
SeqsUpTo(S, n) ==
    IF n = 0 THEN {<<>>}
    ELSE LET shorter == SeqsUpTo(S, n - 1)
         IN  shorter \cup {Append(s, x) : s \in shorter, x \in S}

\* what GetObjectSha256 can return: nil, "" (metadata without the key), or
\* a checksum stored by an earlier run
RemoteChecksums ==
    {NilPtr, PtrTo(EmptyString)}
        \cup {PtrTo(ComputeSha256(s)) : s \in SeqsUpTo(Alphabet, MaxStoredLen)}

DecideInputs ==
    [name : {"ShouldPerformNewBackup"},
     contents : SeqsUpTo(Alphabet, MaxLen),
     remote : RemoteChecksums]

InitDecide ==
    /\ InitPipeline
    /\ useS3
    /\ \A d \in Devices : store[d]["config"] = AbsentObject
    /\ fnIn \in DecideInputs
    /\ fnOut = NoFnValue

\* main.go: the downloaded export, then the stored checksum written into
\* configFileResult, then configFileResult.ShouldPerformNewBackup()
ApplyDecide ==
    /\ fnOut = NoFnValue
    /\ fnIn \in DecideInputs
    /\ LET cfg == Result("MikrotikConfigExport", NoErr, "d1",
                         DownloadedFile(ExportFileName("d1"), fnIn.contents),
                         fnIn.remote)
       IN  fnOut' = [name |-> "ShouldPerformNewBackup",
                     local |-> cfg.File.ComputedSha256WithoutFirstLine,
                     changed |-> ShouldPerformNewBackup(cfg)]
    /\ UNCHANGED <<fnIn, pipelineVars>>

NextDecide == ApplyDecide

SpecDecide == InitDecide /\ [][NextDecide]_vars

-----------------------------------------------------------------------------
(* The lookup and the decision on their own: every bounded export body       *)
(* against every bounded stored object                                       *)

\* what the bucket may hold at the export's key: nothing, an object put by
\* this program for a body of up to MaxStoredLen bytes (which carries the
\* checksum entry only if that body has a line terminator), an object put by
\* someone else with no metadata at all
StoredObjects ==
    {AbsentObject}
        \cup {PutObjectInput(DownloadedFile(ExportFileName("d1"), s),
                             TargetMetadata) :
                  s \in SeqsUpTo(Alphabet, MaxStoredLen)}
        \cup {[exists |-> TRUE, Contents |-> <<65>>,
               ChecksumSHA256 |-> ComputeSha256(<<65>>), Metadata |-> <<>>]}

LookupInputs ==
    [name : {"lookup"},
     contents : SeqsUpTo(Alphabet, MaxLen),
     object : StoredObjects,
     callOk : BOOLEAN]

InitLookup ==
    /\ InitPipeline
    /\ useS3
    /\ \A d \in Devices : store[d]["config"] = AbsentObject
    /\ fnIn \in LookupInputs
    /\ fnOut = NoFnValue

\* main.go:95-106 for one downloaded export and one stored object: the
\* lookup goroutine's result, taken by the wait, then the decision
ApplyLookup ==
    /\ fnOut = NoFnValue
    /\ fnIn \in LookupInputs
    /\ LET cfg == Result("MikrotikConfigExport", NoErr, "d1",
                         DownloadedFile(ExportFileName("d1"), fnIn.contents),
                         NilPtr)
           head == HeadObject(fnIn.object, FALSE, fnIn.callOk)
           r == Result("lookup", NoErr, "d1", EmptyFile, GetObjectSha256(head))
           n == MainStep("lookup", r, cfg, NoResult, TRUE)
       IN  fnOut' = [name |-> "lookup",
                     local |-> cfg.File.ComputedSha256WithoutFirstLine,
                     remote |-> r.ExistingConfigSha256,
                     opc |-> n.opc,
                     go |-> n.go]
    /\ UNCHANGED <<fnIn, pipelineVars>>

NextLookup == ApplyLookup

SpecLookup == InitLookup /\ [][NextLookup]_vars

-----------------------------------------------------------------------------
(* Two runs in a row: the config put of the first, the lookup and the        *)
(* decision of the second                                                    *)

\* settings.Metadata of the target: none configured, or automated: "true"
MetadataChoices == {<<>>, TargetMetadata}

RunsInputs ==
    [name : {"runs"},
     first : SeqsUpTo(Alphabet, MaxLen),
     second : SeqsUpTo(Alphabet, MaxLen),
     metadata : MetadataChoices,
     callOk : BOOLEAN]

InitRuns ==
    /\ InitPipeline
    /\ useS3
    /\ \A d \in Devices : store[d]["config"] = AbsentObject
    /\ fnIn \in RunsInputs
    /\ fnOut = NoFnValue

\* the first run ends Stored: its config put (main.go:118) went through
StoreFirstRun ==
    /\ fnOut = NoFnValue
    /\ fnIn \in RunsInputs
    /\ LET file == DownloadedFile(ExportFileName("d1"), fnIn.first)
           u == S3Upload(AbsentObject, file, fnIn.metadata, FALSE, TRUE, TRUE)
       IN  fnOut' = [name |-> "stored", object |-> u.obj]
    /\ UNCHANGED <<fnIn, pipelineVars>>

\* the second run: export downloaded, lookup, decision (main.go:95-109)
LookupSecondRun ==
    /\ fnOut # NoFnValue
    /\ fnOut.name = "stored"
    /\ LET cfg == Result("MikrotikConfigExport", NoErr, "d1",
                         DownloadedFile(ExportFileName("d1"), fnIn.second),
                         NilPtr)
           head == HeadObject(fnOut.object, FALSE, fnIn.callOk)
           r == Result("lookup", NoErr, "d1", EmptyFile, GetObjectSha256(head))
           n == MainStep("lookup", r, cfg, NoResult, TRUE)
       IN  fnOut' = [name |-> "decided", object |-> fnOut.object,
                     remote |-> r.ExistingConfigSha256,
                     opc |-> n.opc, go |-> n.go]
    /\ UNCHANGED <<fnIn, pipelineVars>>

NextRuns == StoreFirstRun \/ LookupSecondRun

SpecRuns == InitRuns /\ [][NextRuns]_vars

-----------------------------------------------------------------------------
(* The same artifact put twice in a row into the object store                *)

PutInputs ==
    [name : {"put"},
     contents : SeqsUpTo(Alphabet, MaxLen),
     metadata : MetadataChoices,
     object : StoredObjects,
     head1 : BOOLEAN, put1 : BOOLEAN,
     head2 : BOOLEAN, put2 : BOOLEAN]

InitPut ==
    /\ InitPipeline
    /\ useS3
    /\ \A d \in Devices : store[d]["config"] = AbsentObject
    /\ fnIn \in PutInputs
    /\ fnOut = NoFnValue

\* storage.UploadFile of the artifact onto the object found in the bucket
PutFirst ==
    /\ fnOut = NoFnValue
    /\ fnIn \in PutInputs
    /\ LET file == DownloadedFile(ExportFileName("d1"), fnIn.contents)
           u == S3Upload(fnIn.object, file, fnIn.metadata, FALSE, fnIn.head1,
                         fnIn.put1)
       IN  fnOut' = [name |-> "put1", object |-> u.obj, Err |-> u.Err,
                     put |-> u.put, first |-> u,
                     transfers |-> IF u.put THEN 1 ELSE 0]
    /\ UNCHANGED <<fnIn, pipelineVars>>

\* storage.UploadFile of the same artifact onto what the first call left
PutSecond ==
    /\ fnOut # NoFnValue
    /\ fnOut.name = "put1"
    /\ LET file == DownloadedFile(ExportFileName("d1"), fnIn.contents)
           u == S3Upload(fnOut.object, file, fnIn.metadata, FALSE, fnIn.head2,
                         fnIn.put2)
       IN  fnOut' = [name |-> "put2", object |-> u.obj, Err |-> u.Err,
                     put |-> u.put, first |-> fnOut.first,
                     transfers |-> fnOut.transfers + IF u.put THEN 1 ELSE 0]
    /\ UNCHANGED <<fnIn, pipelineVars>>

NextPut == PutFirst \/ PutSecond

SpecPut == InitPut /\ [][NextPut]_vars

-----------------------------------------------------------------------------
(* One HTTP call of a stage: the body it sends, doRequest, the result it     *)
(* reports                                                                   *)

\* http.StatusOK
StatusOK == 200

\* the statuses a device may answer with
StatusCodes == {StatusOK, 201, 401, 500}

MaxKeyLen == 2

\* settings.EncryptionKey of a target: "" when none is configured
EncryptionKeys == SeqsUpTo({65, 66}, MaxKeyLen)

\* a mutant: the password is sent whatever the key is
performBackupBody_Mut(identity, EncryptionKey) ==
    ("name" :> identity) @@ ("dont-encrypt" :> (EncryptionKey = EmptyString))
        @@ ("password" :> EncryptionKey)

\* the body map performBackup builds
performBackupBody(identity, EncryptionKey) ==
    LET encrypt == EncryptionKey # EmptyString
        body == ("name" :> identity) @@ ("dont-encrypt" :> ~encrypt)
    IN  IF encrypt THEN body @@ ("password" :> EncryptionKey) ELSE body

\* the body map exportConfig builds
exportConfigBody(identity) == ("file" :> ExportFileName(identity))

\* the body of the request a stage sends; getIdentity sends none
RequestBody(g, identity, EncryptionKey) ==
    CASE g = "performBackup" -> performBackupBody(identity, EncryptionKey)
      [] g = "exportConfig" -> exportConfigBody(identity)
      [] g = "getIdentity" -> <<>>

\* a mutant: every status below 300 passes
doRequest_Mut(transportOk, StatusCode) ==
    IF ~transportOk \/ StatusCode >= 300 THEN HttpErr ELSE NoErr

\* doRequest: the error of client.Do, else an error for any status but 200
doRequest(transportOk, StatusCode) ==
    IF ~transportOk \/ StatusCode # StatusOK THEN HttpErr ELSE NoErr

\* getIdentity, exportConfig, performBackup: the result sent for the answer;
\* getIdentity also has to decode the reply
HttpStage(g, identity, transportOk, StatusCode, decodeOk) ==
    LET err == doRequest(transportOk, StatusCode)
    IN  LeafResult(g, identity,
                   err = NoErr /\ (g = "getIdentity" => decodeOk), <<>>)

RequestInputs ==
    [name : {"request"},
     stage : HttpOps,
     key : EncryptionKeys,
     transport : BOOLEAN,
     status : StatusCodes,
     decode : BOOLEAN]

InitRequest ==
    /\ InitPipeline
    /\ ~useS3
    /\ fnIn \in RequestInputs
    /\ fnOut = NoFnValue

ApplyRequest ==
    /\ fnOut = NoFnValue
    /\ fnIn \in RequestInputs
    /\ fnOut' = [name |-> "request",
                 body |-> RequestBody(fnIn.stage, "d1", fnIn.key),
                 err |-> doRequest(fnIn.transport, fnIn.status),
                 result |-> HttpStage(fnIn.stage, "d1", fnIn.transport,
                                      fnIn.status, fnIn.decode)]
    /\ UNCHANGED <<fnIn, pipelineVars>>

NextRequest == ApplyRequest

SpecRequest == InitRequest /\ [][NextRequest]_vars

-----------------------------------------------------------------------------
(* Two downloads of the same file name                                       *)

DownloadInputs ==
    [name : {"downloadFile"},
     first : SeqsUpTo(Alphabet, MaxLen),
     second : SeqsUpTo(Alphabet, MaxLen)]

InitDownload ==
    /\ InitPipeline
    /\ ~useS3
    /\ fnIn \in DownloadInputs
    /\ fnOut = NoFnValue

\* downloadFile for each of the two bodies, copied without error
ApplyDownload ==
    /\ fnOut = NoFnValue
    /\ fnIn \in DownloadInputs
    /\ fnOut' = [name |-> "downloadFile",
                 first |-> LeafResult("downloadConfig", "d1", TRUE, fnIn.first),
                 second |-> LeafResult("downloadConfig", "d1", TRUE, fnIn.second)]
    /\ UNCHANGED <<fnIn, pipelineVars>>

NextDownload == ApplyDownload

SpecDownload == InitDownload /\ [][NextDownload]_vars

-----------------------------------------------------------------------------
(* One put into the local directory                                          *)

\* the file a local directory may hold under the artifact's name
LocalObjects ==
    {AbsentObject}
        \cup {[exists |-> TRUE, Contents |-> s, ChecksumSHA256 |-> EmptyString,
               Metadata |-> <<>>] : s \in SeqsUpTo(Alphabet, MaxStoredLen)}

\* os.MkdirAll(destDir, 0755): the directory is there afterwards unless the
\* call failed
MkdirAll(dirExists, outcome) == IF outcome = MkdirErr THEN dirExists ELSE TRUE

StoreInputs ==
    {i \in [name : {"StoreFile"},
            contents : SeqsUpTo(Alphabet, MaxLen),
            dir : BOOLEAN,
            object : LocalObjects,
            outcome : {"ok", MkdirErr, WriteErr}] :
        i.object.exists => i.dir}

InitStore ==
    /\ InitPipeline
    /\ ~useS3
    /\ fnIn \in StoreInputs
    /\ fnOut = NoFnValue

\* storage.StoreFile of a downloaded artifact into the directory
ApplyStore ==
    /\ fnOut = NoFnValue
    /\ fnIn \in StoreInputs
    /\ LET file == DownloadedFile(ExportFileName("d1"), fnIn.contents)
           u == StoreFile(fnIn.object, file, fnIn.outcome)
       IN  fnOut' = [name |-> "StoreFile", Err |-> u.Err, object |-> u.obj,
                     put |-> u.put, dir |-> MkdirAll(fnIn.dir, fnIn.outcome)]
    /\ UNCHANGED <<fnIn, pipelineVars>>

NextStore == ApplyStore

SpecStore == InitStore /\ [][NextStore]_vars

-----------------------------------------------------------------------------
(* The put that picks its backend by the scheme of the destination           *)

\* fmt.Errorf("unsupported upload scheme: %s", ...)
SchemeErr == "scheme"

\* settings.DownloadTo.Scheme: the two backends' schemes, none, another
Schemes == {"file", "s3", "", "ftp"}

\* hex.EncodeToString of the sum: another text of the same digest
HexTag == 16
HexSha256(contents) == <<HexTag>> \o contents

\* the metadata key uploadToS3 keeps its checksum under
Sha256sum == "Sha256sum"

\* uploadToS3: bucket and key from the path, HeadObject, compare, Upload
uploadToS3(obj, file, pathOk, headOk, putOk) ==
    LET localSumHex == HexSha256(file.Contents)
        head == HeadObject(obj, FALSE, headOk)
    IN  IF ~pathOk THEN [Err |-> S3Err, obj |-> obj, put |-> FALSE]
        ELSE IF ~head.err /\ MapGet(head.Metadata, Sha256sum) = localSumHex
        THEN [Err |-> NoErr, obj |-> obj, put |-> FALSE]
        ELSE IF ~putOk THEN [Err |-> S3Err, obj |-> obj, put |-> FALSE]
        ELSE [Err |-> NoErr,
              obj |-> [exists |-> TRUE, Contents |-> file.Contents,
                       ChecksumSHA256 |-> EmptyString,
                       Metadata |-> [Sha256sum |-> localSumHex]],
              put |-> TRUE]

\* a mutant: a scheme of neither backend is taken for the bucket
UploadFile_Mut(scheme, local, remote, file, outcome, pathOk, headOk, putOk) ==
    IF scheme = "file"
    THEN LET u == StoreFile(local, file, outcome)
         IN  [Err |-> u.Err, local |-> u.obj, remote |-> remote]
    ELSE LET u == uploadToS3(remote, file, pathOk, headOk, putOk)
         IN  [Err |-> u.Err, local |-> local, remote |-> u.obj]

\* storage.UploadFile: switch settings.DownloadTo.Scheme
UploadFile(scheme, local, remote, file, outcome, pathOk, headOk, putOk) ==
    CASE scheme = "file" ->
            LET u == StoreFile(local, file, outcome)
            IN  [Err |-> u.Err, local |-> u.obj, remote |-> remote]
      [] scheme \in {"s3", ""} ->
            LET u == uploadToS3(remote, file, pathOk, headOk, putOk)
            IN  [Err |-> u.Err, local |-> local, remote |-> u.obj]
      [] OTHER -> [Err |-> SchemeErr, local |-> local, remote |-> remote]

SchemeInputs ==
    [name : {"UploadFile"},
     scheme : Schemes,
     contents : SeqsUpTo(Alphabet, MaxStoredLen),
     local : {AbsentObject,
              [exists |-> TRUE, Contents |-> <<65>>,
               ChecksumSHA256 |-> EmptyString, Metadata |-> <<>>]},
     remote : {AbsentObject,
               [exists |-> TRUE, Contents |-> <<65>>,
                ChecksumSHA256 |-> EmptyString,
                Metadata |-> [Sha256sum |-> HexSha256(<<65>>)]]},
     outcome : {"ok", MkdirErr, WriteErr},
     pathOk : BOOLEAN, headOk : BOOLEAN, putOk : BOOLEAN]

InitScheme ==
    /\ InitPipeline
    /\ ~useS3
    /\ fnIn \in SchemeInputs
    /\ fnOut = NoFnValue

ApplyScheme ==
    /\ fnOut = NoFnValue
    /\ fnIn \in SchemeInputs
    /\ LET file == DownloadedFile(BackupFileName("d1"), fnIn.contents)
           u == UploadFile(fnIn.scheme, fnIn.local, fnIn.remote, file,
                           fnIn.outcome, fnIn.pathOk, fnIn.headOk, fnIn.putOk)
       IN  fnOut' = [name |-> "UploadFile", Err |-> u.Err, local |-> u.local,
                     remote |-> u.remote]
    /\ UNCHANGED <<fnIn, pipelineVars>>

NextScheme == ApplyScheme

SpecScheme == InitScheme /\ [][NextScheme]_vars

-----------------------------------------------------------------------------
(* The targets: createTargets, then the loop of main that starts one device  *)
(* goroutine per target                                                      *)

MaxTargets == 2

\* the default of createTargets, in seconds
DefaultTimeout == 10

\* an entry of config.Mikrotiks; urlOk: common.CreateUrl succeeds for it
MikrotikEntries ==
    [Host : Devices, urlOk : BOOLEAN, Timeout : {0, 5},
     EncryptionKey : {EmptyString, <<65>>}, Metadata : MetadataChoices]

\* createTargets: one BackupSettings per entry whose URL could be built
createTargets(mikrotiks) ==
    LET good == SelectSeq(mikrotiks, LAMBDA t : t.urlOk)
    IN  [i \in 1..Len(good) |->
            [BaseUrl |-> good[i].Host,
             EncryptionKey |-> good[i].EncryptionKey,
             Timeout |-> IF good[i].Timeout = 0 THEN DefaultTimeout
                         ELSE good[i].Timeout,
             Metadata |-> good[i].Metadata]]

\* a mutant: the checksum entry is written into the caller's map
MetadataAfterUpload_Mut(file, metadata) ==
    IF file.ComputedSha256WithoutFirstLine # EmptyString
    THEN MapPut(metadata, Sha256WithoutFirstLine,
                file.ComputedSha256WithoutFirstLine)
    ELSE metadata

\* a mutant: the checksum entry is set through the caller's pointer, whatever
\* the checksum is
MetadataAfterUpload_Alias(file, metadata) ==
    MapPut(metadata, Sha256WithoutFirstLine, file.ComputedSha256WithoutFirstLine)

\* the caller's map after S3Connector.UploadFile: the checksum entry goes
\* into modifiedMetadata, a copy made for the call
MetadataAfterUpload(file, metadata) == metadata

TargetsInputs ==
    [name : {"targets"},
     mikrotiks : SeqsUpTo(MikrotikEntries, MaxTargets)]

InitTargets ==
    /\ InitPipeline
    /\ useS3
    /\ \A d \in Devices : store[d]["config"] = AbsentObject
    /\ fnIn \in TargetsInputs
    /\ fnOut = NoFnValue

\* targets := createTargets(ttConfig)
CreateTargets ==
    /\ fnOut = NoFnValue
    /\ fnIn \in TargetsInputs
    /\ fnOut' = [name |-> "loop",
                 constructed |-> createTargets(fnIn.mikrotiks),
                 targets |-> createTargets(fnIn.mikrotiks),
                 tasks |-> <<>>]
    /\ UNCHANGED <<fnIn, pipelineVars>>

\* one iteration of for _, settings := range targets: the context with the
\* target's timeout, then go func() over this iteration's settings and ctx
StartTask ==
    /\ fnOut # NoFnValue
    /\ fnOut.name = "loop"
    /\ Len(fnOut.tasks) < Len(fnOut.targets)
    /\ LET i == Len(fnOut.tasks) + 1
       IN  fnOut' = [fnOut EXCEPT !.tasks =
                        Append(@, [settings |-> i,
                                   deadline |-> fnOut.targets[i].Timeout,
                                   uploads |-> 0])]
    /\ UNCHANGED <<fnIn, pipelineVars>>

\* a device goroutine reads its settings for its stages and passes
\* &settings.Metadata to the upload of the config, then of the backup
TaskUpload ==
    /\ fnOut # NoFnValue
    /\ fnOut.name = "loop"
    /\ \E k \in 1..Len(fnOut.tasks) :
         /\ fnOut.tasks[k].uploads < 2
         /\ LET i == fnOut.tasks[k].settings
                file == DownloadedFile(ExportFileName("d1"), <<65, NL, 66>>)
            IN  fnOut' = [fnOut EXCEPT
                    !.tasks[k].uploads = @ + 1,
                    !.targets[i].Metadata = MetadataAfterUpload(file, @)]
    /\ UNCHANGED <<fnIn, pipelineVars>>

NextTargets == CreateTargets \/ StartTask \/ TaskUpload

SpecTargets == InitTargets /\ [][NextTargets]_vars

-----------------------------------------------------------------------------
(* The chunked variant of the download: the file read in chunks of a fixed   *)
(* size by requests with an increasing offset                                *)

MaxFileLen == 4
MaxChunk == 3

\* the bytes the device answers with for {"file", "chunk-size", "offset"}
ReadChunk(file, chunkSize, offset) ==
    SubSeq(file, offset + 1,
           IF offset + chunkSize < Len(file) THEN offset + chunkSize
           ELSE Len(file))

\* a mutant: the next offset is one chunk size further than it should be
NextOffset_Mut(offsets, chunkSize) == (Len(offsets) + 1) * chunkSize

\* the offset of the request after those made: 0, C, 2C, ...
NextOffset(offsets, chunkSize) == Len(offsets) * chunkSize

ChunkInputs ==
    [name : {"chunks"},
     file : SeqsUpTo({65, 66}, MaxFileLen),
     chunkSize : 1..MaxChunk]

InitChunks ==
    /\ InitPipeline
    /\ ~useS3
    /\ fnIn \in ChunkInputs
    /\ fnOut = NoFnValue

StartChunks ==
    /\ fnOut = NoFnValue
    /\ fnIn \in ChunkInputs
    /\ fnOut' = [name |-> "chunks", offsets |-> <<>>, pending |-> <<>>,
                 buffer |-> <<>>, done |-> FALSE]
    /\ UNCHANGED <<fnIn, pipelineVars>>

\* the next request is sent once the answer to the one before is appended
RequestChunk ==
    /\ fnOut # NoFnValue
    /\ fnOut.name = "chunks"
    /\ ~fnOut.done
    /\ fnOut.pending = <<>>
    /\ NextOffset(fnOut.offsets, fnIn.chunkSize) < Len(fnIn.file)
    /\ LET offset == NextOffset(fnOut.offsets, fnIn.chunkSize)
       IN  fnOut' = [fnOut EXCEPT !.offsets = Append(@, offset),
                                  !.pending = <<offset>>]
    /\ UNCHANGED <<fnIn, pipelineVars>>

\* the answer is appended to the buffer
ReceiveChunk ==
    /\ fnOut # NoFnValue
    /\ fnOut.name = "chunks"
    /\ fnOut.pending # <<>>
    /\ fnOut' = [fnOut EXCEPT
            !.buffer = @ \o ReadChunk(fnIn.file, fnIn.chunkSize,
                                      fnOut.pending[1]),
            !.pending = <<>>]
    /\ UNCHANGED <<fnIn, pipelineVars>>

\* no byte is left to ask for: the buffer is the downloaded file
FinishChunks ==
    /\ fnOut # NoFnValue
    /\ fnOut.name = "chunks"
    /\ ~fnOut.done
    /\ fnOut.pending = <<>>
    /\ NextOffset(fnOut.offsets, fnIn.chunkSize) >= Len(fnIn.file)
    /\ fnOut' = [fnOut EXCEPT !.done = TRUE]
    /\ UNCHANGED <<fnIn, pipelineVars>>

NextChunks == StartChunks \/ RequestChunk \/ ReceiveChunk \/ FinishChunks

SpecChunks == InitChunks /\ [][NextChunks]_vars

-----------------------------------------------------------------------------
(* S3Connector.UploadFile of an artifact, then S3Connector.GetObjectSha256   *)
(* for its name                                                              *)

\* the maps a caller may pass as metadata: the targets' ones, and maps that
\* use the key of the change-detection checksum themselves
CallerMetadata ==
    MetadataChoices
        \cup {MapPut(m, Sha256WithoutFirstLine, <<65>>) : m \in MetadataChoices}

MetadataInputs ==
    [name : {"metadata"},
     contents : SeqsUpTo(Alphabet, MaxLen),
     metadata : CallerMetadata,
     callOk : BOOLEAN]

InitMetadata ==
    /\ InitPipeline
    /\ useS3
    /\ \A d \in Devices : store[d]["config"] = AbsentObject
    /\ fnIn \in MetadataInputs
    /\ fnOut = NoFnValue

\* S3Connector.UploadFile, the upload accepted by the store
UploadObject ==
    /\ fnOut = NoFnValue
    /\ fnIn \in MetadataInputs
    /\ LET file == DownloadedFile(ExportFileName("d1"), fnIn.contents)
       IN  fnOut' = [name |-> "uploaded",
                     local |-> file.ComputedSha256WithoutFirstLine,
                     object |-> PutObjectInput(file, fnIn.metadata),
                     remote |-> NilPtr]
    /\ UNCHANGED <<fnIn, pipelineVars>>

\* S3Connector.GetObjectSha256 for the same name
ReadBack ==
    /\ fnOut # NoFnValue
    /\ fnOut.name = "uploaded"
    /\ fnOut' = [fnOut EXCEPT
            !.name = "read",
            !.remote = GetObjectSha256(HeadObject(fnOut.object, FALSE,
                                                  fnIn.callOk))]
    /\ UNCHANGED <<fnIn, pipelineVars>>

NextMetadata == UploadObject \/ ReadBack

SpecMetadata == InitMetadata /\ [][NextMetadata]_vars

-----------------------------------------------------------------------------
(* The two uploads of one device, both given &settings.Metadata              *)

UploadsInputs ==
    [name : {"uploads"},
     config : SeqsUpTo(Alphabet, MaxStoredLen),
     backup : SeqsUpTo(Alphabet, MaxStoredLen),
     metadata : CallerMetadata,
     configOk : BOOLEAN,
     backupOk : BOOLEAN]

InitUploads ==
    /\ InitPipeline
    /\ useS3
    /\ \A d \in Devices : store[d]["config"] = AbsentObject
    /\ fnIn \in UploadsInputs
    /\ fnOut = NoFnValue

\* the object an upload leaves in the bucket: none when the upload failed
Uploaded(file, metadata, ok) ==
    IF ok THEN PutObjectInput(file, metadata) ELSE AbsentObject

\* main.go:118-123: the upload of the config with the target's map
UploadConfigFile ==
    /\ fnOut = NoFnValue
    /\ fnIn \in UploadsInputs
    /\ LET file == DownloadedFile(ExportFileName("d1"), fnIn.config)
       IN  fnOut' = [name |-> "config",
                     Err |-> IF fnIn.configOk THEN NoErr ELSE S3Err,
                     passed |-> fnIn.metadata,
                     object |-> Uploaded(file, fnIn.metadata, fnIn.configOk),
                     metadata |-> MetadataAfterUpload(file, fnIn.metadata)]
    /\ UNCHANGED <<fnIn, pipelineVars>>

\* main.go:125-130: after a config upload without error, the upload of the
\* backup with the target's map as the first upload left it
UploadBackupFile ==
    /\ fnOut # NoFnValue
    /\ fnOut.name = "config"
    /\ fnOut.Err = NoErr
    /\ LET file == DownloadedFile(BackupFileName("d1"), fnIn.backup)
       IN  fnOut' = [name |-> "backup",
                     Err |-> IF fnIn.backupOk THEN NoErr ELSE S3Err,
                     passed |-> fnOut.metadata,
                     object |-> Uploaded(file, fnOut.metadata, fnIn.backupOk),
                     metadata |-> MetadataAfterUpload(file, fnOut.metadata)]
    /\ UNCHANGED <<fnIn, pipelineVars>>

NextUploads == UploadConfigFile \/ UploadBackupFile

SpecUploads == InitUploads /\ [][NextUploads]_vars

-----------------------------------------------------------------------------
(* Properties of the pipeline *)

\* the device goroutine of d leaves a wait in this step
LeavesWait(d) == opc[d] \in Waits /\ opc'[d] # opc[d]

\* ... and what WaitForResult returned carried an error: the context was done
\* (nothing was taken from the channel), or the value taken has an Err
WaitEndedWithError(d) ==
    /\ LeavesWait(d)
    /\ \/ mainBackupChannel'[d] = mainBackupChannel[d]
       \/ Head(mainBackupChannel[d]).Err # NoErr

\* no goroutine of d is started in this step
StartsNothing(d) ==
    \A g \in Goroutines : gs[d][g] = "idle" => gs'[d][g] = "idle"

\* C1: as soon as a stage reports an error, or the wait for a stage's result
\* ends with an error, the device goes directly to Failed and no later stage
\* of that device is started.
C1_StageErrorGoesToFailed ==
    [][\A d \in Devices :
          WaitEndedWithError(d) => (opc'[d] = "Failed" /\ StartsNothing(d))]_vars

\* the goroutines that perform a stage's call to the device or to the store
StageCalls == Leaves \cup {"lookup", "uploadConfig", "uploadBackup"}

\* C2: the stages of one device run strictly one after another: in every
\* reachable state at most one stage goroutine of a device is still running,
\* also after the device's deadline has expired.
C2_AtMostOneStageRunning ==
    \A d \in Devices :
        Cardinality({g \in StageCalls : gs[d][g] = "run"}) <= 1

\* the stored checksum the device goroutine wrote into configFileResult, and
\* the checksum-excluding-header of the export it downloaded
ObservedStored(d) == configFileResult[d].ExistingConfigSha256
LocalChecksum(d) == configFileResult[d].File.ComputedSha256WithoutFirstLine

\* no backup was triggered or downloaded for d and nothing was put
NothingBackedUp(d) ==
    /\ calls[d]["performBackup"] = 0
    /\ calls[d]["downloadBackup"] = 0
    /\ \A g \in {"MikrotikBackup", "uploadConfig", "uploadBackup"} :
          gs[d][g] = "idle"

\* C3 (as amended): when the stored checksum the lookup returned to the device
\* goroutine equals the checksum-excluding-header of the downloaded export,
\* the device is Skipped: no backup trigger, no backup download, no put, no
\* error.
C3_SkippedWhenLookupReturnsEqual ==
    \A d \in Devices :
        (~ObservedStored(d).isNil /\ ObservedStored(d).val = LocalChecksum(d))
            => (opc[d] = "Skipped" /\ NothingBackedUp(d))

\* a device skipped on a stored checksum equal to the one it computed
C3_Witness ==
    \E d \in Devices :
        /\ opc[d] = "Skipped"
        /\ ~ObservedStored(d).isNil
        /\ ObservedStored(d).val # EmptyString
        /\ ObservedStored(d).val = LocalChecksum(d)
        /\ calls[d]["downloadConfig"] = 1

\* the export of d has been downloaded within the deadline and the checksum
\* recorded in the store for it, untouched by this run, equals its
\* checksum-excluding-header
StoredEqualsLocal(d) ==
    /\ useS3
    /\ ~expired[d]
    /\ configFileResult[d].File.Name # <<>>
    /\ gs[d]["uploadConfig"] = "idle"
    /\ store[d]["config"].exists
    /\ LocalChecksum(d) # EmptyString
    /\ MapGet(store[d]["config"].Metadata, Sha256WithoutFirstLine)
          = LocalChecksum(d)

\* C3 (as stated): when the checksum recorded in the store for the export
\* equals the checksum-excluding-header of the downloaded export, no backup is
\* triggered and the device ends in Skipped.
C3_SkippedWhenStoredEqual ==
    \A d \in Devices :
        StoredEqualsLocal(d)
            => /\ gs[d]["MikrotikBackup"] = "idle"
               /\ opc[d] \in Terminal => opc[d] = "Skipped"

\* C4: a device task whose deadline expires terminates and the joint wait over
\* all device tasks returns: once a deadline has passed, either main has
\* returned from wg.Wait or some goroutine can still take a step.
C4_JointWaitReturns ==
    (\E d \in Devices : expired[d]) => (proc = "exited" \/ ENABLED Next)

\* C5: an error or a deadline expiry in one device's pipeline never aborts a
\* sibling: when the run is over, every device that answers all its calls in
\* time, with nothing stored for it, has reached Stored.
C5_SiblingsReachTheirOutcome ==
    proc # "running" => \A d \in Devices \ Unreliable : opc[d] = "Stored"

\* the identity call of d was made and failed
IdentityCallFailed(d) ==
    calls[d]["getIdentity"] > 0 /\ "getIdentity" \notin served[d]

\* C6: if a device's identity call fails, no export request, no backup request
\* and no download is ever issued for that device.
C6_NoCallsAfterIdentityFailure ==
    \A d \in Devices :
        IdentityCallFailed(d)
            => \A g \in Leaves \ {"getIdentity"} :
                  calls[d][g] = 0 /\ gs[d][g] = "idle"

\* the identity call failed and the device goroutine has ended in Failed
C6_Witness ==
    \E d \in Devices :
        /\ IdentityCallFailed(d)
        /\ opc[d] = "Failed"
        /\ gs[d]["MikrotikConfigExport"] = "done"

\* C7: when the deadline expires while the device goroutine waits for a stage
\* result, the wait ends the device with the cancellation failure.
C7_ExpiryWhileWaitingFails ==
    [][\A d \in Devices :
          (LeavesWait(d) /\ osel[d] = "parked" /\ expired[d])
              => opc'[d] = "Failed"]_vars

\* C8: once the context of a device is done, no HTTP call of that device
\* (identity, export trigger, backup trigger) completes successfully any more.
C8_CancellationAbortsHttp ==
    [][\A d \in Devices :
          expired[d] => (served'[d] \cap HttpOps) \subseteq served[d]]_vars

\* the results of goroutine g of d that sit on q
ResultsOn(q, g) == Cardinality({i \in DOMAIN q : q[i].from = g})

\* the results goroutine g of d has put on its result channel so far: those
\* still held by g parked in its send, and the one a receiver took
Produced(d, g) ==
    ResultsOn(mainBackupChannel[d], g)
        + ResultsOn(internalChannel[d]["MikrotikConfigExport"], g)
        + ResultsOn(internalChannel[d]["MikrotikBackup"], g)
        + (IF gs[d][g] = "done" THEN 1 ELSE 0)

C10_DecisionIffAbsentOrDiffers ==
    fnOut # NoFnValue =>
        (fnOut.changed = FALSE
            <=> (~fnIn.remote.isNil /\ fnIn.remote.val = fnOut.local))

\* a stored checksum equal to the local one was decided "not changed"
C10_Witness ==
    /\ fnOut # NoFnValue
    /\ ~fnIn.remote.isNil
    /\ fnIn.remote.val # EmptyString
    /\ fnIn.remote.val = fnOut.local
    /\ fnOut.changed = FALSE

\* C11: on a first run, with no object stored at the export's key, the
\* decision is "changed" for every export body and the device goroutine goes
\* on to the backup trigger.
C11_FirstRunAlwaysBacksUp ==
    (fnOut # NoFnValue /\ ~fnIn.object.exists)
        => /\ fnOut.remote.isNil
           /\ fnOut.opc = "MikrotikBackup"
           /\ fnOut.go = "MikrotikBackup"

\* nothing stored and an export without a line terminator: backup all the same
C11_Witness ==
    /\ fnOut # NoFnValue
    /\ ~fnIn.object.exists
    /\ fnIn.callOk
    /\ fnOut.local = EmptyString
    /\ fnOut.go = "MikrotikBackup"

\* the stored object exists but carries no checksum entry
LacksChecksumField(obj) ==
    obj.exists /\ Sha256WithoutFirstLine \notin DOMAIN obj.Metadata

\* C12: when the stored object lacks the checksum metadata field, the stored
\* checksum is treated as absent and the decision is "changed", for every
\* export body, also one without a line terminator.
C12_MissingFieldIsAbsent ==
    (fnOut # NoFnValue /\ LacksChecksumField(fnIn.object))
        => (fnOut.opc = "MikrotikBackup" /\ fnOut.go = "MikrotikBackup")

\* both bodies have a first line and are equal after it
DiffersAtMostInFirstLine(a, b) ==
    /\ IndexByte(a, NL) >= 0
    /\ IndexByte(b, NL) >= 0
    /\ SliceFrom(a, IndexByte(a, NL) + 1) = SliceFrom(b, IndexByte(b, NL) + 1)

Holds(d, art, file) ==
    store[d][art].exists /\ store[d][art].Contents = file.Contents

\* the config put of d has been made by this run
ConfigPutDone(d) == gs[d]["uploadConfig"] \in {"blocked", "done"}

\* C14: there is no rollback: once this run has put the config artifact it
\* stays in the store unchanged, whatever happens to the backup put; when the
\* wait for the backup put ends with an error (a failed put, the deadline) the
\* device ends Failed; and a device is Stored only with both artifacts in the
\* store.
C14_NoRollback ==
    /\ [][\A d \in Devices :
            /\ ConfigPutDone(d) => store'[d]["config"] = store[d]["config"]
            /\ (opc[d] = "uploadBackup" /\ WaitEndedWithError(d))
                  => opc'[d] = "Failed"]_vars
    /\ [](\A d \in Devices :
            opc[d] = "Stored"
                => /\ Holds(d, "config", configFileResult[d].File)
                   /\ Holds(d, "backup", backupFileResult[d].File))

\* the config put went through, the backup put failed: the device is Failed
\* and the config artifact is in the store, the backup artifact is not
C14_Witness ==
    \E d \in Devices :
        /\ opc[d] = "Failed"
        /\ gs[d]["uploadBackup"] = "done"
        /\ ~expired[d]
        /\ Holds(d, "config", configFileResult[d].File)
        /\ configFileResult[d].File.Contents # <<>>
        /\ ~store[d]["backup"].exists

C16_ConfigPutBeforeBackupPut ==
    \A d \in Devices :
        /\ gs[d]["uploadBackup"] # "idle"
              => /\ gs[d]["uploadConfig"] = "done"
                 /\ Holds(d, "config", configFileResult[d].File)
        /\ opc[d] = "Stored"
              => /\ {"performBackup", "downloadBackup"} \subseteq served[d]
                 /\ Holds(d, "backup", backupFileResult[d].File)

\* the goroutine that puts artifact art
UploaderOf(art) == IF art = "config" THEN "uploadConfig" ELSE "uploadBackup"

\* C17: no stage is retried: every device-side operation is invoked at most
\* once per device, no goroutine that has made its call is started again, and
\* the store entry of an artifact changes only in the one step in which its
\* upload goroutine makes its call (after which it is parked in its send, or
\* the process is gone) -- also after a failure or a timeout.
C17_NoRetry ==
    /\ [](\A d \in Devices : \A g \in Leaves : calls[d][g] <= 1)
    /\ [][\A d \in Devices :
            /\ \A g \in Goroutines :
                  /\ gs[d][g] # "idle" => gs'[d][g] # "idle"
                  /\ gs[d][g] \in {"blocked", "done"}
                        => gs'[d][g] \in {"blocked", "done"}
            /\ \A art \in Artifacts :
                  store'[d][art] # store[d][art]
                      => /\ gs[d][UploaderOf(art)] = "run"
                         /\ \/ gs'[d][UploaderOf(art)] = "blocked"
                            \/ proc' = "panicked"]_vars

\* the backup trigger failed after the deadline: made once, the device Failed
C17_Witness ==
    \E d \in Devices :
        /\ opc[d] = "Failed"
        /\ expired[d]
        /\ calls[d]["performBackup"] = 1
        /\ "performBackup" \notin served[d]
        /\ gs[d]["MikrotikBackup"] = "done"

\* C18: one task is started per configured target, and the joint wait returns
\* only after every device task has reached a terminal state: main never
\* returns while a device task is non-terminal, no device task is started a
\* second time, and nothing moves once main has returned.
C18_JointWaitAfterAllTerminal ==
    /\ [](proc = "exited" => \A d \in Devices : opc[d] \in Terminal)
    /\ [][/\ \A d \in Devices : opc[d] # "start" => opc'[d] # "start"
          /\ proc = "exited" => UNCHANGED vars]_vars

\* main has returned with one device timed out and its sibling Stored
C18_Witness ==
    /\ proc = "exited"
    /\ \E d \in Devices : opc[d] = "Failed" /\ expired[d]
    /\ \E d \in Devices : opc[d] = "Stored"

\* the state of the specified machine a device is in, read off the position
\* pc of its device goroutine and the positions g of its stage goroutines
MachineState(pc, g) ==
    CASE pc \in Terminal -> pc
      [] pc \in {"start", "MikrotikConfigExport"} ->
            IF g["exportConfig"] = "idle" THEN "Start"
            ELSE IF g["downloadConfig"] = "idle" THEN "IdentityKnown"
            ELSE "ExportRequested"
      [] pc = "lookup" -> "ChangeEvaluated"
      [] pc = "MikrotikBackup" -> "BackupRequested"
      [] pc \in {"uploadConfig", "uploadBackup"} -> "Downloaded"

\* the transitions of the specified machine; the change is evaluated within
\* the step that leaves ExportRequested when there is no lookup to wait for
MachineEdges ==
    {<<"Start", "IdentityKnown">>, <<"IdentityKnown", "ExportRequested">>,
     <<"ExportRequested", "ChangeEvaluated">>, <<"ExportRequested", "Skipped">>,
     <<"ExportRequested", "BackupRequested">>, <<"ChangeEvaluated", "Skipped">>,
     <<"ChangeEvaluated", "BackupRequested">>, <<"BackupRequested", "Downloaded">>,
     <<"Downloaded", "Stored">>}
        \cup {<<x, "Failed">> : x \in {"Start", "IdentityKnown", "ExportRequested",
                                       "ChangeEvaluated", "BackupRequested",
                                       "Downloaded"}}

\* the device moves along the specified machine in this step
FollowsMachine(d) ==
    \/ MachineState(opc'[d], gs'[d]) = MachineState(opc[d], gs[d])
    \/ <<MachineState(opc[d], gs[d]), MachineState(opc'[d], gs'[d])>>
          \in MachineEdges

\* nothing is done for a device that has reached a terminal state: no call to
\* the device, no goroutine started, no change of its store
NoFurtherAction(d) ==
    opc[d] \in Terminal
        => /\ opc'[d] = opc[d]
           /\ calls'[d] = calls[d]
           /\ store'[d] = store[d]
           /\ StartsNothing(d)

\* C19: every device passes through a path of the machine Start,
\* IdentityKnown, ExportRequested, ChangeEvaluated, then Skipped or
\* BackupRequested, Downloaded, Stored, with Failed reachable from every
\* non-terminal state, and performs no further action once it is Skipped,
\* Stored or Failed.
C19_FollowsStateMachine ==
    [][\A d \in Devices : FollowsMachine(d) /\ NoFurtherAction(d)]_vars

\* the object in the bucket records the checksum of the artifact's content
RecordsChecksumOf(obj, contents) ==
    obj.exists /\ obj.ChecksumSHA256 = ComputeSha256(contents)

\* C20 as stated: a put onto an object recording the artifact's content
\* checksum returns success without uploading, so two puts of the same
\* artifact in a row transfer it at most once and leave the store as after
\* the first put.
C20_AtMostOncePerContent ==
    (fnOut # NoFnValue /\ fnOut.name \in {"put1", "put2"}) =>
        /\ (fnOut.name = "put1" /\ RecordsChecksumOf(fnIn.object, fnIn.contents))
              => (fnOut.Err = NoErr /\ ~fnOut.put /\ fnOut.object = fnIn.object)
        /\ fnOut.name = "put2"
              => /\ fnOut.transfers <= 1
                 /\ fnOut.first.Err = NoErr => fnOut.object = fnOut.first.obj

\* C20: when the HeadObject query of a put succeeds and the object records
\* the artifact's content checksum, the put returns success without
\* uploading and leaves the object as it is; of two puts of the same artifact
\* in a row, the first successful, the second uploads nothing and leaves the
\* store as after the first when its query succeeds, and whatever its query
\* does it leaves the store as after a first put that uploaded.
C20_AtMostOnceWhenQueried ==
    (fnOut # NoFnValue /\ fnOut.name \in {"put1", "put2"}) =>
        /\ (/\ fnOut.name = "put1"
            /\ fnIn.head1
            /\ RecordsChecksumOf(fnIn.object, fnIn.contents))
              => (fnOut.Err = NoErr /\ ~fnOut.put /\ fnOut.object = fnIn.object)
        /\ fnOut.name = "put2"
              => /\ (fnIn.head2 /\ fnOut.first.Err = NoErr)
                        => /\ fnOut.Err = NoErr
                           /\ ~fnOut.put
                           /\ fnOut.transfers <= 1
                           /\ fnOut.object = fnOut.first.obj
                 /\ fnOut.first.put => fnOut.object = fnOut.first.obj

\* the first put transferred the artifact and the second, its query
\* answered, returned success without a transfer
C20_Witness ==
    /\ fnOut # NoFnValue
    /\ fnOut.name = "put2"
    /\ fnOut.first.put
    /\ fnIn.head2
    /\ fnOut.Err = NoErr
    /\ ~fnOut.put
    /\ fnOut.object = fnOut.first.obj

\* the backup trigger was called for the inputs drawn
BackupTriggered ==
    fnOut # NoFnValue /\ fnOut.name = "request" /\ fnIn.stage = "performBackup"

\* C21: the backup-trigger body sets dont-encrypt to true and has no password
\* exactly when the encryption key is empty, sets dont-encrypt to false and
\* has password equal to the key exactly when the key is non-empty, and an
\* empty key is no error: the stage reports success when the device answers
\* 200.
C21_BodyFollowsEncryptionKey ==
    BackupTriggered =>
        /\ (fnIn.key = EmptyString)
              <=> (fnOut.body["dont-encrypt"] /\ "password" \notin DOMAIN fnOut.body)
        /\ (fnIn.key # EmptyString)
              <=> /\ ~fnOut.body["dont-encrypt"]
                  /\ "password" \in DOMAIN fnOut.body
                  /\ fnOut.body["password"] = fnIn.key
        /\ (fnIn.transport /\ fnIn.status = StatusOK)
              => /\ fnOut.result.Err = NoErr
                 /\ fnOut.result.File.Name = BackupFileName("d1")

\* a backup triggered without a key and answered with 200 reports success
C21_Witness ==
    /\ BackupTriggered
    /\ fnIn.key = EmptyString
    /\ fnOut.body["dont-encrypt"]
    /\ "password" \notin DOMAIN fnOut.body
    /\ fnOut.result.Err = NoErr

\* C23: a response whose status is not 200 is a hard failure: doRequest
\* returns an error and the stage that called it (identity, export, backup
\* trigger) reports an error result, never a success.
C23_Non200IsFailure ==
    (fnOut # NoFnValue /\ fnOut.name = "request"
        /\ fnIn.transport /\ fnIn.status # StatusOK)
        => /\ fnOut.err # NoErr
           /\ fnOut.result.Err # NoErr

\* a 201 answer to a stage's request, reported as an error
C23_Witness ==
    /\ fnOut # NoFnValue
    /\ fnOut.name = "request"
    /\ fnIn.transport
    /\ fnIn.status = 201
    /\ fnOut.result.Err # NoErr

\* C22: for two byte sequences that are identical after their first line
\* terminator, downloadFile computes the same checksum-excluding-header,
\* namely the checksum of the bytes after that terminator, whatever the
\* first lines are.
C22_InvariantToFirstLine ==
    (/\ fnOut # NoFnValue
     /\ fnOut.name = "downloadFile"
     /\ DiffersAtMostInFirstLine(fnIn.first, fnIn.second))
        => /\ fnOut.first.Err = NoErr
           /\ fnOut.second.Err = NoErr
           /\ fnOut.first.File.ComputedSha256WithoutFirstLine
                 = fnOut.second.File.ComputedSha256WithoutFirstLine
           /\ fnOut.first.File.ComputedSha256WithoutFirstLine
                 = ComputeSha256(SliceFrom(fnIn.first,
                                           IndexByte(fnIn.first, NL) + 1))

\* two downloads with first lines of different content and length, the same
\* bytes after them: equal checksums-excluding-header, different
\* full-content checksums
C22_Witness ==
    /\ fnOut # NoFnValue
    /\ fnOut.name = "downloadFile"
    /\ DiffersAtMostInFirstLine(fnIn.first, fnIn.second)
    /\ Len(fnIn.first) # Len(fnIn.second)
    /\ fnOut.first.File.ComputedSha256WithoutFirstLine
          = fnOut.second.File.ComputedSha256WithoutFirstLine
    /\ fnOut.first.File.ComputedSha256WithoutFirstLine # EmptyString
    /\ fnOut.first.File.ComputedSha256 # fnOut.second.File.ComputedSha256

\* C24: after a successful local put the file holds exactly the artifact's
\* bytes, whatever was stored there before, equal bytes included (the write
\* is made, there is no dedup), and the destination directory exists.
C24_LocalPutOverwrites ==
    (fnOut # NoFnValue /\ fnOut.name = "StoreFile" /\ fnOut.Err = NoErr)
        => /\ fnOut.object.exists
           /\ fnOut.object.Contents = fnIn.contents
           /\ fnOut.put
           /\ fnOut.dir

\* a successful put over a file with other bytes
C24_Witness ==
    /\ fnOut # NoFnValue
    /\ fnOut.name = "StoreFile"
    /\ fnOut.Err = NoErr
    /\ fnIn.object.exists
    /\ fnIn.object.Contents # fnIn.contents
    /\ fnOut.object.Contents = fnIn.contents

\* C25: the put reports 'cannot create destination', 'transfer failed' and
\* 'incompatible destination scheme' as different errors, each for its own
\* cause; a destination whose scheme selects neither backend ("file" selects
\* the directory, "s3" and the empty scheme the bucket) always yields the
\* scheme error and writes nothing.
C25_DistinctErrorKinds ==
    (fnOut # NoFnValue /\ fnOut.name = "UploadFile") =>
        /\ Cardinality({NoErr, MkdirErr, WriteErr, S3Err, SchemeErr}) = 5
        /\ fnIn.scheme \notin {"file", "s3", ""}
              => /\ fnOut.Err = SchemeErr
                 /\ fnOut.local = fnIn.local
                 /\ fnOut.remote = fnIn.remote
        /\ fnOut.Err = SchemeErr => fnIn.scheme \notin {"file", "s3", ""}
        /\ fnOut.Err = MkdirErr
              => (fnIn.scheme = "file" /\ fnIn.outcome = MkdirErr)
        /\ fnOut.Err = WriteErr
              => (fnIn.scheme = "file" /\ fnIn.outcome = WriteErr)
        /\ fnOut.Err = S3Err
              => (fnIn.scheme \in {"s3", ""} /\ (~fnIn.pathOk \/ ~fnIn.putOk))

\* a put to an ftp destination that every call would have served: the scheme
\* error, nothing written
C25_Witness ==
    /\ fnOut # NoFnValue
    /\ fnOut.name = "UploadFile"
    /\ fnIn.scheme = "ftp"
    /\ fnIn.outcome = "ok" /\ fnIn.pathOk /\ fnIn.putOk
    /\ fnOut.Err = SchemeErr
    /\ fnOut.local = fnIn.local
    /\ fnOut.remote = fnIn.remote

CeilDiv(s, c) == (s + c - 1) \div c

\* C27: a chunked download of a file of size S with chunk size C issues its
\* requests one at a time with the offsets 0, C, 2C, ... in increasing order,
\* ceil(S/C) of them in all, and the responses concatenated in request order
\* are the file's S bytes exactly.
C27_ChunksInOrder ==
    (fnOut # NoFnValue /\ fnOut.name = "chunks") =>
        /\ \A k \in 1..Len(fnOut.offsets) :
              fnOut.offsets[k] = (k - 1) * fnIn.chunkSize
        /\ Len(fnOut.pending) <= 1
        /\ fnOut.pending # <<>>
              => fnOut.pending[1] = fnOut.offsets[Len(fnOut.offsets)]
        /\ fnOut.buffer = SubSeq(fnIn.file, 1, Len(fnOut.buffer))
        /\ fnOut.done
              => /\ Len(fnOut.offsets) = CeilDiv(Len(fnIn.file), fnIn.chunkSize)
                 /\ fnOut.buffer = fnIn.file

\* a file of four bytes read in two chunks of three bytes at most
C27_Witness ==
    /\ fnOut # NoFnValue
    /\ fnOut.name = "chunks"
    /\ fnOut.done
    /\ Len(fnIn.file) = 4
    /\ fnIn.chunkSize = 3
    /\ fnOut.offsets = <<0, 3>>
    /\ fnOut.buffer = fnIn.file

\* C28: in every interleaving, deadline expiries included, no goroutine sends
\* on a result channel that has been closed: none is parked in a send on a
\* channel closed under it, and no send has panicked.
C28_NoSendOnClosedChannel ==
    /\ panicBy = <<>>
    /\ proc # "panicked"
    /\ \A d \in Devices : ParkedOnClosed(d) = {}

\* the device goroutine of d takes a result off mainBackupChannel in this step
ReceivesResult(d) ==
    /\ opc[d] \in Waits
    /\ mainBackupChannel[d] # <<>>
    /\ mainBackupChannel'[d] = Tail(mainBackupChannel[d])
    /\ opc'[d] # opc[d]

\* C29: every result the device goroutine receives while it waits for a
\* stage was sent by that stage's goroutine; a result of an earlier stage is
\* never taken as the result of a later one.
C29_ResultBelongsToAwaitedStage ==
    [][\A d \in Devices :
          ReceivesResult(d) => Head(mainBackupChannel[d]).from = opc[d]]_vars

\* C30 as stated: the uploaded object carries every caller-supplied entry
\* unchanged and, exactly when the checksum-excluding-header is non-empty,
\* that checksum under the key GetObjectSha256 reads; a following
\* GetObjectSha256 returns that checksum.
C30_MetadataRoundTrip ==
    (fnOut # NoFnValue /\ fnOut.name \in {"uploaded", "read"}) =>
        /\ \A k \in DOMAIN fnIn.metadata :
              /\ k \in DOMAIN fnOut.object.Metadata
              /\ fnOut.object.Metadata[k] = fnIn.metadata[k]
        /\ (fnOut.local # EmptyString)
              <=> /\ Sha256WithoutFirstLine \in DOMAIN fnOut.object.Metadata
                  /\ fnOut.object.Metadata[Sha256WithoutFirstLine] = fnOut.local
        /\ (fnOut.name = "read" /\ fnOut.local # EmptyString)
              => fnOut.remote = PtrTo(fnOut.local)

\* C30: the uploaded object carries every caller-supplied entry unchanged
\* but one under the checksum's own key, carries no other entry than these
\* and the checksum's, and has the checksum-excluding-header under that key
\* whenever it is non-empty; when it is empty the metadata is the caller's.
\* A following GetObjectSha256 whose HeadObject call succeeds returns the
\* non-empty checksum.
C30_MetadataRoundTripWhenRead ==
    (fnOut # NoFnValue /\ fnOut.name \in {"uploaded", "read"}) =>
        /\ \A k \in DOMAIN fnIn.metadata \ {Sha256WithoutFirstLine} :
              /\ k \in DOMAIN fnOut.object.Metadata
              /\ fnOut.object.Metadata[k] = fnIn.metadata[k]
        /\ DOMAIN fnOut.object.Metadata
              \subseteq DOMAIN fnIn.metadata \cup {Sha256WithoutFirstLine}
        /\ fnOut.local # EmptyString
              => /\ Sha256WithoutFirstLine \in DOMAIN fnOut.object.Metadata
                 /\ fnOut.object.Metadata[Sha256WithoutFirstLine] = fnOut.local
        /\ fnOut.local = EmptyString
              => fnOut.object.Metadata = fnIn.metadata
        /\ (fnOut.name = "read" /\ fnIn.callOk /\ fnOut.local # EmptyString)
              => fnOut.remote = PtrTo(fnOut.local)

\* an export uploaded with automated: "true" and read back
C30_Witness ==
    /\ fnOut # NoFnValue
    /\ fnOut.name = "read"
    /\ fnIn.callOk
    /\ fnIn.metadata = TargetMetadata
    /\ fnOut.local # EmptyString
    /\ fnOut.object.Metadata["automated"] = <<116>>
    /\ fnOut.remote = PtrTo(fnOut.local)

TakesDownloadedExport(d) ==
    /\ ReceivesResult(d)
    /\ opc[d] = "MikrotikConfigExport"
    /\ Head(mainBackupChannel[d]).Err = NoErr

\* C32: with the local directory as destination no stored-checksum lookup is
\* made and no device is ever Skipped: a device goroutine that takes a
\* downloaded export starts the backup pipeline and its trigger, whatever the
\* export's content, and a device within its deadline whose export was
\* downloaded has had its backup trigger started when it ends.
C32_LocalModeAlwaysBacksUp ==
    /\ [](~useS3 => \A d \in Devices :
              /\ opc[d] \notin {"Skipped", "lookup"}
              /\ gs[d]["lookup"] = "idle"
              /\ configFileResult[d].ExistingConfigSha256.isNil
              /\ (/\ opc[d] \in Terminal
                  /\ ~expired[d]
                  /\ "downloadConfig" \in served[d])
                    => gs[d]["performBackup"] # "idle")
    /\ [][~useS3 => \A d \in Devices :
              TakesDownloadedExport(d)
                  => /\ opc'[d] = "MikrotikBackup"
                     /\ gs'[d]["MikrotikBackup"] = "w1"
                     /\ gs'[d]["performBackup"] = "run"]_vars

\* a device of a local run, its export downloaded, at its backup pipeline
C32_Witness ==
    /\ ~useS3
    /\ opc["d1"] = "MikrotikBackup"
    /\ "downloadConfig" \in served["d1"]
    /\ configFileResult["d1"].File.Contents = <<65, NL, 66>>
    /\ gs["d1"]["performBackup"] # "idle"

====
